---------------------------- MODULE Spec2Model ----------------------------
(***************************************************************************)
(* Model of homeassistant/components/denonavr/config_flow.py: the config   *)
(* flow DenonAvrFlowHandler (steps user, select, settings, connect, ssdp), *)
(* the identifier construction and the hardware-address resolution.        *)
(*                                                                         *)
(* A Python str is a sequence of one-character strings; Python's None is   *)
(* the value None below, which is no such sequence.  Setup attempts run    *)
(* one after the other; each step execution is one atomic action.          *)
(***************************************************************************)
EXTENDS Integers, Sequences, FiniteSets, TLC

\* ------------------------------------------------------------------ bounds
\* Number of setup attempts (flow instances) in one behaviour.
MaxFlows == 2
\* Largest number of receivers one discovery call returns.
MaxDiscovered == 2
\* Longest model name and serial number handed to construct_unique_id alone.
MaxIdLen == 3

\* ------------------------------------------------------- values and strings
None == <<"<None>">>
\* Outcome of an external call that raised an exception.
Raised == <<"<raised>">>

\* Python truthiness of a str-or-None value ("if host:", "if not x").
Truthy(x) == x # None /\ x # <<>>

UpperChars == <<"A","B","C","D","E","F","G","H","I","J","K","L","M",
                "N","O","P","Q","R","S","T","U","V","W","X","Y","Z">>
LowerChars == <<"a","b","c","d","e","f","g","h","i","j","k","l","m",
                "n","o","p","q","r","s","t","u","v","w","x","y","z">>

\* The lower-case letter of each upper-case letter.
LowerOf == [u \in {UpperChars[i] : i \in 1..26} |->
               LowerChars[CHOOSE i \in 1..26 : UpperChars[i] = u]]

LowerChar(c) == IF c \in DOMAIN LowerOf THEN LowerOf[c] ELSE c

\* str.lower()
Lower(s) == [i \in 1..Len(s) |-> LowerChar(s[i])]

\* str.replace(ch, "")
Remove(s, ch) == SelectSeq(s, LAMBDA c : c # ch)

\* str.count(ch)
Count(s, ch) == Len(SelectSeq(s, LAMBDA c : c = ch))

\* First index >= from of a character of set cs in s, or Len(s)+1.
FindFirst(s, cs, from) ==
    LET hits == {i \in from..Len(s) : s[i] \in cs}
    IN  IF hits = {} THEN Len(s) + 1
        ELSE CHOOSE i \in hits : \A j \in hits : i <= j

\* Last index of character ch in s, or 0.
FindLast(s, ch) ==
    LET hits == {i \in 1..Len(s) : s[i] = ch}
    IN  IF hits = {} THEN 0
        ELSE CHOOSE i \in hits : \A j \in hits : j <= i

\* ------------------------------------------------------------- constants
\* Mutant of SUPPORTED_MANUFACTURERS: a lower-case spelling is let through.
SUPPORTED_MANUFACTURERS_AnyCase ==
    { <<"D","e","n","o","n">>, <<"D","E","N","O","N">>,
      <<"M","a","r","a","n","t","z">>, <<"d","e","n","o","n">> }

\* config_flow.py:21
SUPPORTED_MANUFACTURERS ==
    { <<"D","e","n","o","n">>, <<"D","E","N","O","N">>,
      <<"M","a","r","a","n","t","z">> }

\* Mutant of DEFAULT_SHOW_SOURCES: all sources are shown by default.
DEFAULT_SHOW_SOURCES_On == TRUE

DEFAULT_SHOW_SOURCES == FALSE
DEFAULT_TIMEOUT == 2
DEFAULT_ZONE2 == FALSE
DEFAULT_ZONE3 == FALSE

SettingsKeys == {"timeout", "show_all_sources", "zone2", "zone3"}

SettingsDefault(k) ==
    CASE k = "timeout" -> DEFAULT_TIMEOUT
      [] k = "show_all_sources" -> DEFAULT_SHOW_SOURCES
      [] k = "zone2" -> DEFAULT_ZONE2
      [] k = "zone3" -> DEFAULT_ZONE3

\* SETTINGS_SCHEMA applied to a submission (a function on a subset of the
\* keys): every absent key gets its default.
SETTINGS_SCHEMA(user_input) ==
    [k \in SettingsKeys |->
        IF k \in DOMAIN user_input THEN user_input[k] ELSE SettingsDefault(k)]

\* ------------------------------------------------------ identifier and mac
\* Mutant of construct_unique_id: it removes the asterisks itself.
construct_unique_id_Stripping(model_name, serial_number) ==
    Remove(model_name, "*") \o <<"-">> \o serial_number

construct_unique_id(model_name, serial_number) ==
    model_name \o <<"-">> \o serial_number

\* Two-character groups of a 12-character string joined by ":".
ColonJoin(s) ==
    [i \in 1..17 |-> IF i % 3 = 0 THEN ":" ELSE s[2 * (i \div 3) + (i % 3)]]

\* homeassistant.helpers.device_registry.format_mac
format_mac(mac) ==
    IF Len(mac) = 17 /\ Count(mac, ":") = 5 THEN Lower(mac)
    ELSE LET to_test ==
                 IF Len(mac) = 17 /\ Count(mac, "-") = 5 THEN Remove(mac, "-")
                 ELSE IF Len(mac) = 14 /\ Count(mac, ".") = 2
                      THEN Remove(mac, ".")
                      ELSE mac
         IN  IF Len(to_test) = 12 THEN ColonJoin(Lower(to_test)) ELSE mac

\* Mutant of async_get_mac: only the lookup that raised is given up, so a
\* raising IP lookup is followed by the hostname lookup.
async_get_mac_TryEach(by_ip, by_hostname) ==
    LET first == IF by_ip = Raised THEN None ELSE by_ip
        second == ~Truthy(first)
        raw == IF Truthy(first) THEN first
               ELSE IF by_hostname = Raised THEN None
               ELSE by_hostname
        calls == IF second THEN <<"get_mac_ip", "get_mac_hostname">>
                 ELSE <<"get_mac_ip">>
    IN  [mac |-> IF raw # None THEN format_mac(raw) ELSE None,
         calls |-> calls]

\* async_get_mac(host), given what get_mac_address(ip=host) and
\* get_mac_address(hostname=host) would return (or Raised).  The result has
\* the address and the lookups made.
async_get_mac(by_ip, by_hostname) ==
    LET second == ~(by_ip = Raised) /\ ~Truthy(by_ip)
        raw == IF by_ip = Raised THEN None
               ELSE IF Truthy(by_ip) THEN by_ip
               ELSE IF by_hostname = Raised THEN None
               ELSE by_hostname
        calls == IF second THEN <<"get_mac_ip", "get_mac_hostname">>
                 ELSE <<"get_mac_ip">>
    IN  [mac |-> IF raw # None THEN format_mac(raw) ELSE None,
         calls |-> calls]

\* Mutant of UrlHostname: the netloc itself (.netloc for .hostname), with
\* its port and in the case given.
UrlHostname_Netloc(url) ==
    LET colon == FindFirst(url, {":"}, 1)
        hasScheme == colon > 1 /\ colon <= Len(url)
                     /\ FindFirst(url, {"/", "?", "#"}, 1) > colon
        rest == IF hasScheme THEN SubSeq(url, colon + 1, Len(url)) ELSE url
        hasNetloc == Len(rest) >= 2 /\ rest[1] = "/" /\ rest[2] = "/"
        stop == FindFirst(rest, {"/", "?", "#"}, 3)
        netloc == IF hasNetloc THEN SubSeq(rest, 3, stop - 1) ELSE <<>>
    IN  IF netloc = <<>> THEN None ELSE netloc

\* urlparse(url).hostname: the netloc is what follows "scheme://" up to the
\* next "/", "?" or "#"; the hostname is the netloc without userinfo and
\* port, lower-cased, and None when empty.
UrlHostname(url) ==
    LET colon == FindFirst(url, {":"}, 1)
        hasScheme == colon > 1 /\ colon <= Len(url)
                     /\ FindFirst(url, {"/", "?", "#"}, 1) > colon
        rest == IF hasScheme THEN SubSeq(url, colon + 1, Len(url)) ELSE url
        hasNetloc == Len(rest) >= 2 /\ rest[1] = "/" /\ rest[2] = "/"
        stop == FindFirst(rest, {"/", "?", "#"}, 3)
        netloc == IF hasNetloc THEN SubSeq(rest, 3, stop - 1) ELSE <<>>
        at == FindLast(netloc, "@")
        hostport == SubSeq(netloc, at + 1, Len(netloc))
        name == SubSeq(hostport, 1, FindFirst(hostport, {":"}, 1) - 1)
    IN  IF name = <<>> THEN None ELSE Lower(name)

\* ----------------------------------------------------------- flow results
\* A step's outcome as the flow manager sees it.  choices is the list the
\* form's schema validates a "select_host" submission against.
FlowResult(type, step_id, errors, reason, choices) ==
    [type |-> type, step_id |-> step_id, errors |-> errors,
     reason |-> reason, choices |-> choices]

NoResult == FlowResult("none", "", "", "", <<>>)

async_show_form(step_id, choices, errors) ==
    FlowResult("form", step_id, errors, "", choices)

async_abort(reason) == FlowResult("abort", "", "", reason, <<>>)

\* The handler raised an exception the flow does not handle.
Unhandled(exc) == FlowResult("error", "", "", exc, <<>>)

\* DenonAvrFlowHandler.__init__
FlowInit ==
    [host |-> None, serial_number |-> None, model_name |-> None,
     timeout |-> DEFAULT_TIMEOUT,
     show_all_sources |-> DEFAULT_SHOW_SOURCES,
     zone2 |-> DEFAULT_ZONE2, zone3 |-> DEFAULT_ZONE3,
     d_receivers |-> <<>>]

\* A step works on a context c: the handler's fields (c.self), the flow's
\* registered unique id (c.unique_id), the persisted entries (c.entries),
\* the external calls made so far in this step (c.io) and the arguments of
\* the trial connections the flow has made (c.connects).  It returns the
\* context with the step's result.
Ctx(self_, unique_id_, entries_, io_, result_, connects_) ==
    [self |-> self_, unique_id |-> unique_id_, entries |-> entries_,
     io |-> io_, result |-> result_, connects |-> connects_]

Return(c, r) == [c EXCEPT !.result = r]

\* A step argument of None.
NoInput == [no_input |-> TRUE]

IsNone(user_input) == "no_input" \in DOMAIN user_input

\* dict.get(key): None when the key is absent.
Get(d, key) == IF key \in DOMAIN d THEN d[key] ELSE None

\* ------------------------------------------------------------ flow manager
\* ConfigFlow.async_set_unique_id
async_set_unique_id(c, unique_id_) ==
    [c EXCEPT !.unique_id = unique_id_,
              !.io = Append(@, "set_unique_id")]

\* {**entry.data, **updates}
MergeData(data, updates) ==
    [k \in DOMAIN data \cup DOMAIN updates |->
        IF k \in DOMAIN updates THEN updates[k] ELSE data[k]]

\* Index of the first entry whose unique id is uid, or 0.
FindEntry(entries_, uid) ==
    LET hits == {i \in 1..Len(entries_) : entries_[i].unique_id = uid}
    IN  IF hits = {} THEN 0
        ELSE CHOOSE i \in hits : \A j \in hits : i <= j

\* ConfigFlow._abort_if_unique_id_configured(updates): when an entry has the
\* flow's unique id, its data is updated with updates (if any) and the flow
\* aborts; aborted says whether it did.
abort_if_unique_id_configured(c, updates) ==
    LET i == FindEntry(c.entries, c.unique_id)
    IN  IF i = 0 THEN [aborted |-> FALSE, c |-> c]
        ELSE [aborted |-> TRUE,
              c |-> Return(
                  [c EXCEPT !.entries[i].data =
                                IF IsNone(updates) THEN @
                                ELSE MergeData(@, updates),
                            !.io = IF IsNone(updates) THEN @
                                   ELSE Append(@, "update_entry")],
                  async_abort("already_configured"))]

\* ConfigFlow.async_create_entry and the flow manager's saving of the entry
\* under the flow's unique id.
async_create_entry(c, title, data) ==
    Return([c EXCEPT !.entries = Append(@, [unique_id |-> c.unique_id,
                                            title |-> title,
                                            data |-> data])],
           FlowResult("create_entry", "", "", "", <<>>))

\* ConnectDenonAVR.async_connect_receiver: whether the connection succeeded.
async_connect_receiver(outcome) == outcome.kind = "ok"

\* ------------------------------------------------------------------ steps
\* What the connect step passes to ConnectDenonAVR.
ConnectArgs(self_) ==
    [host |-> self_.host, timeout |-> self_.timeout,
     show_all_sources |-> self_.show_all_sources,
     zone2 |-> self_.zone2, zone3 |-> self_.zone3]

\* Mutant of EntryData: the model is stored as the receiver reports it.
EntryData_ReceiverModel(self_, mac_address, receiver) ==
    [host |-> self_.host, mac |-> mac_address, timeout |-> self_.timeout,
     show_all_sources |-> self_.show_all_sources,
     zone2 |-> self_.zone2, zone3 |-> self_.zone3,
     type |-> receiver.receiver_type, model |-> receiver.model_name,
     manufacturer |-> receiver.manufacturer]

\* The data of the entry the connect step creates.
EntryData(self_, mac_address, receiver) ==
    [host |-> self_.host, mac |-> mac_address, timeout |-> self_.timeout,
     show_all_sources |-> self_.show_all_sources,
     zone2 |-> self_.zone2, zone3 |-> self_.zone3,
     type |-> receiver.receiver_type, model |-> self_.model_name,
     manufacturer |-> receiver.manufacturer]

\* Mutant of AdoptIdentity: a serial the receiver reports replaces the one
\* the flow holds.
AdoptIdentity_ReceiverWins(self_, receiver) ==
    [self_ EXCEPT
        !.serial_number = IF Truthy(receiver.serial_number)
                          THEN receiver.serial_number ELSE @,
        !.model_name = IF ~Truthy(@) THEN Remove(receiver.model_name, "*")
                       ELSE @]

\* The fields serial_number and model_name after lines 140-143: what the
\* flow already knows wins over what the receiver reports.
AdoptIdentity(self_, receiver) ==
    [self_ EXCEPT
        !.serial_number = IF ~Truthy(@) THEN receiver.serial_number ELSE @,
        !.model_name = IF ~Truthy(@) THEN Remove(receiver.model_name, "*")
                       ELSE @]

\* Mutant of Unidentifiable: "mac_address is None" for "not mac_address".
Unidentifiable_NoneOnly(self_, mac_address) ==
    ~Truthy(self_.serial_number) /\ mac_address = None

\* Lines 145-152: neither a serial number nor a hardware address.
Unidentifiable(self_, mac_address) ==
    ~Truthy(self_.serial_number) /\ ~Truthy(mac_address)

\* Mutant of RegisterAndCreate: the call of _abort_if_unique_id_configured
\* is missing.
RegisterAndCreate_NoCheck(c, receiver, mac_address) ==
    LET unique_id_ == construct_unique_id(c.self.model_name,
                                          c.self.serial_number)
        c1 == async_set_unique_id(c, unique_id_)
    IN  async_create_entry(c1, receiver.name,
                           EntryData(c1.self, mac_address, receiver))

\* Lines 155-172: register the unique id, abort when it is configured,
\* create the entry otherwise.
RegisterAndCreate(c, receiver, mac_address) ==
    LET unique_id_ == construct_unique_id(c.self.model_name,
                                          c.self.serial_number)
        c1 == async_set_unique_id(c, unique_id_)
        chk == abort_if_unique_id_configured(c1, NoInput)
    IN  IF chk.aborted THEN chk.c
        ELSE async_create_entry(c1, receiver.name,
                                EntryData(c1.self, mac_address, receiver))

\* Mutant of async_step_connect: the hardware address is looked up before
\* the outcome of the connection is tested.
async_step_connect_LookupFirst(c, env) ==
    LET m == async_get_mac(env.mac_ip, env.mac_hostname)
        mac_address == m.mac
        c1 == [c EXCEPT !.io = Append(@, "connect") \o m.calls,
                        !.connects = Append(@, ConnectArgs(c.self))]
    IN  IF ~async_connect_receiver(env.connect)
        THEN Return(c1, async_abort("connection_error"))
        ELSE
        LET receiver == env.connect.receiver
            self1 == AdoptIdentity(c1.self, receiver)
            c2 == [c1 EXCEPT !.self = self1]
        IN  IF ~Truthy(self1.serial_number)
            THEN IF Unidentifiable(self1, mac_address)
                 THEN Return(c2, async_abort("no_mac"))
                 ELSE RegisterAndCreate(
                          [c2 EXCEPT !.self.serial_number = mac_address],
                          receiver, mac_address)
            ELSE RegisterAndCreate(c2, receiver, mac_address)

\* Mutant of async_step_connect: a missing hardware address aborts the flow
\* whether or not a serial number is known.
async_step_connect_MacRequired(c, env) ==
    LET c1 == [c EXCEPT !.io = Append(@, "connect"),
                        !.connects = Append(@, ConnectArgs(c.self))]
    IN  IF ~async_connect_receiver(env.connect)
        THEN Return(c1, async_abort("connection_error"))
        ELSE
        LET receiver == env.connect.receiver
            m == async_get_mac(env.mac_ip, env.mac_hostname)
            mac_address == m.mac
            self1 == AdoptIdentity(c1.self, receiver)
            c2 == [c1 EXCEPT !.io = @ \o m.calls, !.self = self1]
        IN  IF ~Truthy(mac_address)
            THEN Return(c2, async_abort("no_mac"))
            ELSE IF ~Truthy(self1.serial_number)
            THEN RegisterAndCreate(
                     [c2 EXCEPT !.self.serial_number = mac_address],
                     receiver, mac_address)
            ELSE RegisterAndCreate(c2, receiver, mac_address)

\* async_step_connect.  env.connect is the outcome of the trial connection,
\* env.mac_ip and env.mac_hostname what the two lookups would return.
async_step_connect(c, env) ==
    LET c1 == [c EXCEPT !.io = Append(@, "connect"),
                        !.connects = Append(@, ConnectArgs(c.self))]
    IN  IF ~async_connect_receiver(env.connect)
        THEN Return(c1, async_abort("connection_error"))
        ELSE
        LET receiver == env.connect.receiver
            m == async_get_mac(env.mac_ip, env.mac_hostname)
            mac_address == m.mac
            self1 == AdoptIdentity(c1.self, receiver)
            c2 == [c1 EXCEPT !.io = @ \o m.calls, !.self = self1]
        IN  IF ~Truthy(self1.serial_number)
            THEN IF Unidentifiable(self1, mac_address)
                 THEN Return(c2, async_abort("no_mac"))
                 ELSE RegisterAndCreate(
                          [c2 EXCEPT !.self.serial_number = mac_address],
                          receiver, mac_address)
            ELSE RegisterAndCreate(c2, receiver, mac_address)

\* Mutant of async_step_settings: without a submission the step connects
\* with the settings the flow holds instead of showing the form.
async_step_settings_NoForm(c, user_input, env) ==
    IF ~IsNone(user_input)
    THEN async_step_connect(
             [c EXCEPT !.self.timeout = user_input["timeout"],
                       !.self.show_all_sources = user_input["show_all_sources"],
                       !.self.zone2 = user_input["zone2"],
                       !.self.zone3 = user_input["zone3"]],
             env)
    ELSE async_step_connect(c, env)

\* async_step_settings
async_step_settings(c, user_input, env) ==
    IF ~IsNone(user_input)
    THEN async_step_connect(
             [c EXCEPT !.self.timeout = user_input["timeout"],
                       !.self.show_all_sources = user_input["show_all_sources"],
                       !.self.zone2 = user_input["zone2"],
                       !.self.zone3 = user_input["zone3"]],
             env)
    ELSE Return(c, async_show_form("settings", <<>>, ""))

\* Mutant of SelectChoices: the comprehension misses the last receiver.
SelectChoices_DropLast(d_receivers_) ==
    [i \in 1..(Len(d_receivers_) - 1) |-> d_receivers_[i].host]

\* The list vol.In validates a select submission against.
SelectChoices(d_receivers_) ==
    [i \in 1..Len(d_receivers_) |-> d_receivers_[i].host]

\* async_step_select
async_step_select(c, user_input, env) ==
    IF ~IsNone(user_input)
    THEN async_step_settings([c EXCEPT !.self.host = user_input["select_host"]],
                             NoInput, env)
    ELSE Return(c, async_show_form("select",
                                   SelectChoices(c.self.d_receivers), ""))

\* Mutant of async_step_user: zero discovered receivers abort the flow.
async_step_user_AbortOnNone(c, user_input, env) ==
    IF IsNone(user_input)
    THEN Return(c, async_show_form("user", <<>>, ""))
    ELSE
    LET host_ == Get(user_input, "host")
    IN  IF Truthy(host_)
        THEN async_step_settings([c EXCEPT !.self.host = host_], NoInput, env)
        ELSE
        LET c1 == [c EXCEPT !.self.d_receivers = env.discover,
                            !.io = Append(@, "discover")]
        IN  IF Len(env.discover) = 1
            THEN async_step_settings(
                     [c1 EXCEPT !.self.host = env.discover[1].host],
                     NoInput, env)
            ELSE IF Len(env.discover) > 1
            THEN async_step_select(c1, NoInput, env)
            ELSE Return(c1, async_abort("discovery_error"))

\* Mutant of async_step_user: the test for several receivers (>= 1) comes
\* first, so a single receiver is offered for selection too.
async_step_user_SelectOnOne(c, user_input, env) ==
    IF IsNone(user_input)
    THEN Return(c, async_show_form("user", <<>>, ""))
    ELSE
    LET host_ == Get(user_input, "host")
    IN  IF Truthy(host_)
        THEN async_step_settings([c EXCEPT !.self.host = host_], NoInput, env)
        ELSE
        LET c1 == [c EXCEPT !.self.d_receivers = env.discover,
                            !.io = Append(@, "discover")]
        IN  IF Len(env.discover) >= 1
            THEN async_step_select(c1, NoInput, env)
            ELSE Return(c1, async_show_form("user", <<>>, "discovery_error"))

\* Mutant of async_step_user: discovery runs before the host is looked at.
async_step_user_DiscoverFirst(c, user_input, env) ==
    IF IsNone(user_input)
    THEN Return(c, async_show_form("user", <<>>, ""))
    ELSE
    LET host_ == Get(user_input, "host")
        c1 == [c EXCEPT !.self.d_receivers = env.discover,
                        !.io = Append(@, "discover")]
    IN  IF Truthy(host_)
        THEN async_step_settings([c1 EXCEPT !.self.host = host_], NoInput, env)
        ELSE IF Len(env.discover) = 1
        THEN async_step_settings(
                 [c1 EXCEPT !.self.host = env.discover[1].host],
                 NoInput, env)
        ELSE IF Len(env.discover) > 1
        THEN async_step_select(c1, NoInput, env)
        ELSE Return(c1, async_show_form("user", <<>>, "discovery_error"))

\* async_step_user.  env.discover is what denonavr.discover would return.
async_step_user(c, user_input, env) ==
    IF IsNone(user_input)
    THEN Return(c, async_show_form("user", <<>>, ""))
    ELSE
    LET host_ == Get(user_input, "host")
    IN  IF Truthy(host_)
        THEN async_step_settings([c EXCEPT !.self.host = host_], NoInput, env)
        ELSE
        LET c1 == [c EXCEPT !.self.d_receivers = env.discover,
                            !.io = Append(@, "discover")]
        IN  IF Len(env.discover) = 1
            THEN async_step_settings(
                     [c1 EXCEPT !.self.host = env.discover[1].host],
                     NoInput, env)
            ELSE IF Len(env.discover) > 1
            THEN async_step_select(c1, NoInput, env)
            ELSE Return(c1, async_show_form("user", <<>>, "discovery_error"))

\* Mutant of SsdpUpdates: the flow's timeout is handed over with the host.
SsdpUpdates_WithTimeout(self_) ==
    [host |-> self_.host, timeout |-> self_.timeout]

\* The updates the ssdp step hands to _abort_if_unique_id_configured.
SsdpUpdates(self_) == [host |-> self_.host]

\* Mutant of MissingRequired: "and" for "or".
MissingRequired_Both(discovery_info) ==
    /\ "modelName" \notin DOMAIN discovery_info
    /\ "serialNumber" \notin DOMAIN discovery_info

\* Lines 188-191: the payload lacks the model name or the serial number.
MissingRequired(discovery_info) ==
    \/ "modelName" \notin DOMAIN discovery_info
    \/ "serialNumber" \notin DOMAIN discovery_info

\* async_step_ssdp.  A subscript of discovery_info with a key it lacks raises
\* KeyError, which the step does not handle.
async_step_ssdp(c, discovery_info, env) ==
    IF Get(discovery_info, "manufacturer") \notin SUPPORTED_MANUFACTURERS
    THEN Return(c, async_abort("not_denonavr_manufacturer"))
    ELSE IF MissingRequired(discovery_info)
    THEN Return(c, async_abort("not_denonavr_missing"))
    ELSE IF "modelName" \notin DOMAIN discovery_info
    THEN Return(c, Unhandled("KeyError"))
    ELSE IF "serialNumber" \notin DOMAIN discovery_info
    THEN Return([c EXCEPT !.self.model_name =
                              Remove(discovery_info["modelName"], "*")],
                Unhandled("KeyError"))
    ELSE
    LET self1 == [c.self EXCEPT
                     !.model_name = Remove(discovery_info["modelName"], "*"),
                     !.serial_number = discovery_info["serialNumber"]]
    IN  IF "ssdp_location" \notin DOMAIN discovery_info
        THEN Return([c EXCEPT !.self = self1], Unhandled("KeyError"))
        ELSE
        LET self2 == [self1 EXCEPT
                         !.host = UrlHostname(discovery_info["ssdp_location"])]
            unique_id_ == construct_unique_id(self2.model_name,
                                              self2.serial_number)
            c1 == async_set_unique_id([c EXCEPT !.self = self2], unique_id_)
            chk == abort_if_unique_id_configured(c1, SsdpUpdates(self2))
        IN  IF chk.aborted THEN chk.c
            ELSE async_step_settings(c1, NoInput, env)

\* ----------------------------------------------------------------- inputs
H1 == <<"h","1">>
H2 == <<"h","2">>
Hosts == {H1, H2}

S1 == <<"S","N","1">>

ModelStar == <<"X","1","0","0","*">>
ModelPlain == <<"X","1","0","0">>

Mac17 == <<"A","A",":","B","B",":","C","C",":","D","D",":","E","E",":","F","F">>
Mac12 == <<"A","A","B","B","C","C","D","D","E","E","F","F">>

\* What a submission of the user form may hold (CONFIG_SCHEMA).
UserInputs == { <<>>, [host |-> <<>>], [host |-> H1], [host |-> H2] }

\* What denonavr.discover may return.
Discoveries ==
    UNION { [1..n -> {[host |-> h] : h \in Hosts}] : n \in 0..MaxDiscovered }

\* Submissions of the settings form before SETTINGS_SCHEMA fills them in.
SettingsInputs ==
    { <<>>, [timeout |-> 5, show_all_sources |-> TRUE, zone3 |-> TRUE] }

NoReceiver ==
    [name |-> <<>>, serial_number |-> None, model_name |-> <<>>,
     manufacturer |-> <<>>, receiver_type |-> <<>>]

Receiver(sn, mn) ==
    [name |-> <<"A","V","R">>, serial_number |-> sn, model_name |-> mn,
     manufacturer |-> <<"D","e","n","o","n">>,
     receiver_type |-> <<"a","v","r","-","x">>]

\* The receivers a trial connection may find.
Receivers ==
    { Receiver(None, ModelStar), Receiver(<<>>, ModelPlain),
      Receiver(S1, ModelStar), Receiver(S1, ModelPlain) }

ConnectOutcomes ==
    { [kind |-> "refused", receiver |-> NoReceiver],
      [kind |-> "raised", receiver |-> NoReceiver] }
    \cup { [kind |-> "ok", receiver |-> r] : r \in Receivers }

\* What get_mac_address(ip=host) and get_mac_address(hostname=host) may
\* return: the two report the same address in different notations.
MacByIp == {Raised, None, Mac17}
MacByHostname == {Raised, None, <<>>, Mac12}

\* The pairs of lookup outcomes; a lookup that cannot follow (after an IP
\* lookup that raised or found the address) has no outcome of its own.
MacLookups ==
    { <<by_ip, by_hostname>> \in MacByIp \X MacByHostname :
         (by_ip = Raised \/ Truthy(by_ip)) => by_hostname = None }

\* Passive-discovery payloads: any subset of the four keys, each with one of
\* a few values.
SsdpValues(k) ==
    CASE k = "manufacturer" ->
             { <<"D","e","n","o","n">>, <<"D","E","N","O","N">>,
               <<"M","a","r","a","n","t","z">>,
               <<"d","e","n","o","n">>, <<"S","o","n","y">> }
      [] k = "modelName" -> {ModelStar, ModelPlain}
      [] k = "serialNumber" -> {S1, <<>>}
      [] k = "ssdp_location" ->
             { <<"h","t","t","p",":","/","/","h","1",":","8","0","/","d">>,
               <<"h","t","t","p",":","/","/","H","2","/","d">>,
               <<"d",".","x","m","l">> }

SsdpKeys == {"manufacturer", "modelName", "serialNumber", "ssdp_location"}

SsdpPayloads ==
    UNION { {f \in [ks -> UNION {SsdpValues(k) : k \in ks}] :
                \A k \in ks : f[k] \in SsdpValues(k)}
            : ks \in SUBSET SsdpKeys }

\* The external outcomes a step does not consult.
NoEnv ==
    [discover |-> <<>>,
     connect |-> [kind |-> "refused", receiver |-> NoReceiver],
     mac_ip |-> None, mac_hostname |-> None]

\* The outcome of a discovery call.
DiscoverEnv(d) == [NoEnv EXCEPT !.discover = d]

\* The outcomes of a trial connection and, when it succeeds, of the lookups
\* (no lookup follows a failed connection, so none has an outcome then).
ConnectEnvs ==
    { [NoEnv EXCEPT !.connect = o] :
         o \in {x \in ConnectOutcomes : x.kind # "ok"} }
    \cup
    { [NoEnv EXCEPT !.connect = o, !.mac_ip = m[1], !.mac_hostname = m[2]]
      : o \in {x \in ConnectOutcomes : x.kind = "ok"}, m \in MacLookups }

\* ------------------------------------------------------------------ state
VARIABLES
    flow,        \* the handler's fields (self.host, self.serial_number, ...)
    unique_id,   \* the unique id the flow registered (None: not yet)
    entries,     \* the persisted config entries, oldest first
    result,      \* the result of the flow's last step
    io,          \* the external calls the last step made, in order
    connects,    \* the arguments of the flow's trial connections, in order
    source,      \* how the flow was started: "user", "ssdp" ("": no flow yet)
    nFlows,      \* setup attempts started so far
    id_args,     \* a direct call of construct_unique_id: its two arguments
    id_ret       \* that call's return value (None: not called yet)

flowvars == <<flow, unique_id, entries, result, io, connects, source, nFlows>>

vars == <<flow, unique_id, entries, result, io, connects, source, nFlows,
          id_args, id_ret>>

Init ==
    /\ flow = FlowInit
    /\ unique_id = None
    /\ entries = <<>>
    /\ result = NoResult
    /\ io = <<>>
    /\ connects = <<>>
    /\ source = ""
    /\ nFlows = 0
    /\ id_args = <<<<>>, <<>>>>
    /\ id_ret = None

\* The flow manager runs a step of the flow in progress and keeps its result.
Run(c) ==
    /\ flow' = c.self
    /\ unique_id' = c.unique_id
    /\ entries' = c.entries
    /\ result' = c.result
    /\ io' = c.io
    /\ connects' = c.connects
    /\ UNCHANGED <<id_args, id_ret>>

Here == Ctx(flow, unique_id, entries, <<>>, result, connects)

Fresh == Ctx(FlowInit, None, entries, <<>>, NoResult, <<>>)

FlowOver == result.type \in {"none", "abort", "create_entry", "error"}

FormShown(step_id) == result.type = "form" /\ result.step_id = step_id

\* The flow manager drops a flow that has ended (aborted, created its entry
\* or raised): its handler and its result are gone, the entries stay.
ForgetFlow ==
    /\ result.type \in {"abort", "create_entry", "error"}
    /\ flow' = FlowInit
    /\ unique_id' = None
    /\ result' = NoResult
    /\ io' = <<>>
    /\ connects' = <<>>
    /\ source' = ""
    /\ UNCHANGED <<entries, nFlows, id_args, id_ret>>

\* A setup attempt can start: no flow is held.
CanStart == result.type = "none" /\ nFlows < MaxFlows

\* A user starts a setup attempt: a new handler, and async_step_user(None).
StartUserFlow ==
    /\ CanStart
    /\ nFlows' = nFlows + 1
    /\ source' = "user"
    /\ Run(async_step_user(Fresh, NoInput, NoEnv))

\* The SSDP component starts a setup attempt: a new handler, and
\* async_step_ssdp(discovery_info).
StartSsdpFlow ==
    /\ CanStart
    /\ nFlows' = nFlows + 1
    /\ source' = "ssdp"
    /\ \E discovery_info \in SsdpPayloads :
          Run(async_step_ssdp(Fresh, discovery_info, NoEnv))

\* The user submits the user form.
SubmitUser ==
    /\ FormShown("user")
    /\ UNCHANGED <<source, nFlows>>
    /\ \E user_input \in UserInputs, d \in Discoveries :
          Run(async_step_user(Here, user_input, DiscoverEnv(d)))

\* The user submits the select form; the form's schema admits the choices
\* only.
SubmitSelect ==
    /\ FormShown("select")
    /\ UNCHANGED <<source, nFlows>>
    /\ \E i \in 1..Len(result.choices) :
          Run(async_step_select(Here, [select_host |-> result.choices[i]],
                                NoEnv))

\* The user submits the settings form; SETTINGS_SCHEMA fills in defaults.
SubmitSettings ==
    /\ FormShown("settings")
    /\ UNCHANGED <<source, nFlows>>
    /\ \E raw \in SettingsInputs, env \in ConnectEnvs :
          Run(async_step_settings(Here, SETTINGS_SCHEMA(raw), env))

Next ==
    \/ ForgetFlow
    \/ StartUserFlow
    \/ StartSsdpFlow
    \/ SubmitUser
    \/ SubmitSelect
    \/ SubmitSettings

Spec == Init /\ [][Next]_vars

\* ------------------------------------------- construct_unique_id on its own
\* Strings over cs of length at most n.
StringsUpTo(cs, n) == UNION { [1..k -> cs] : k \in 0..n }

IdModels == StringsUpTo({"X", "1", "*"}, MaxIdLen)
IdSerials == StringsUpTo({"S", "*"}, MaxIdLen)

InitId ==
    /\ flow = FlowInit
    /\ unique_id = None
    /\ entries = <<>>
    /\ result = NoResult
    /\ io = <<>>
    /\ connects = <<>>
    /\ source = ""
    /\ nFlows = 0
    /\ id_args \in IdModels \X IdSerials
    /\ id_ret = None

\* The static method is called with the drawn arguments.
CallConstruct ==
    /\ id_ret = None
    /\ id_ret' = construct_unique_id(id_args[1], id_args[2])
    /\ UNCHANGED <<flowvars, id_args>>

NextId == CallConstruct

SpecId == InitId /\ [][NextId]_vars

\* ================================================================== claims
\* The claims about one step are stated on the states the step starts from
\* (a form it answers is shown, or a setup attempt can start): for every
\* argument and every outcome of the external calls the step may meet
\* there, the context the step returns is as claimed.

SeqRange(q) == {q[i] : i \in 1..Len(q)}

\* A submission of the user form that carries no host: absent, or empty.
HostAbsentOrEmpty(u) == "host" \notin DOMAIN u \/ u["host"] = <<>>

DiscoveredHosts(d) == {d[i].host : i \in 1..Len(d)}

IsForm(r, step_id, errors) ==
    r.type = "form" /\ r.step_id = step_id /\ r.errors = errors

IsAbort(r, reason) == r.type = "abort" /\ r.reason = reason

\* C1: a user-form submission without host whose discovery finds nothing
\* shows the user form again with the error "discovery_error"; the flow is
\* neither aborted nor finished, no entry is created, the host stays unset,
\* and the user form can be submitted again.
C1_DiscoveryErrorReshowsUserForm ==
    /\ FormShown("user") =>
          \A u \in UserInputs, d \in Discoveries :
             (HostAbsentOrEmpty(u) /\ Len(d) = 0) =>
                LET c == async_step_user(Here, u, DiscoverEnv(d))
                IN  /\ IsForm(c.result, "user", "discovery_error")
                    /\ c.entries = entries
                    /\ c.self.host = None
    /\ (FormShown("user") /\ result.errors = "discovery_error") =>
          /\ flow.host = None
          /\ ENABLED SubmitUser

C1_Witness ==
    /\ IsForm(result, "user", "discovery_error")
    /\ io = <<"discover">>
    /\ flow.d_receivers = <<>>
    /\ flow.host = None

\* C2: a user-form submission without host whose discovery finds exactly
\* one receiver sets the host to that receiver's and shows the settings form;
\* no form follows the settings form, so the select form is never shown.
C2_SingleDiscoverySkipsSelect ==
    /\ FormShown("user") =>
          \A u \in UserInputs, d \in Discoveries :
             (HostAbsentOrEmpty(u) /\ Len(d) = 1) =>
                LET c == async_step_user(Here, u, DiscoverEnv(d))
                IN  /\ IsForm(c.result, "settings", "")
                    /\ c.self.host = d[1].host
                    /\ c.entries = entries
    /\ FormShown("settings") =>
          \A raw \in SettingsInputs, env \in ConnectEnvs :
             async_step_settings(Here, SETTINGS_SCHEMA(raw), env).result.type
                # "form"

C2_Witness ==
    /\ IsForm(result, "settings", "")
    /\ io = <<"discover">>
    /\ Len(flow.d_receivers) = 1
    /\ flow.host = flow.d_receivers[1].host

\* C3: a user-form submission without host whose discovery finds several
\* receivers shows the select form, whose valid choices are exactly the
\* discovered hosts; the select form is shown in no other situation; a select
\* submission sets the host to one of the discovered hosts and shows the
\* settings form.
C3_SelectFormChoices ==
    /\ FormShown("user") =>
          \A u \in UserInputs, d \in Discoveries :
             LET c == async_step_user(Here, u, DiscoverEnv(d))
             IN  /\ (HostAbsentOrEmpty(u) /\ Len(d) > 1) =>
                       /\ IsForm(c.result, "select", "")
                       /\ SeqRange(c.result.choices) = DiscoveredHosts(d)
                 /\ c.result.step_id = "select" =>
                       HostAbsentOrEmpty(u) /\ Len(d) > 1
    /\ FormShown("select") =>
          /\ source = "user"
          /\ io = <<"discover">>
          /\ Len(flow.d_receivers) > 1
          /\ SeqRange(result.choices) = DiscoveredHosts(flow.d_receivers)
          /\ \A h \in SeqRange(result.choices) :
                LET c == async_step_select(Here, [select_host |-> h], NoEnv)
                IN  /\ IsForm(c.result, "settings", "")
                    /\ c.self.host = h
                    /\ c.self.host \in DiscoveredHosts(flow.d_receivers)

C3_Witness ==
    /\ IsForm(result, "settings", "")
    /\ Len(flow.d_receivers) > 1
    /\ flow.host \in DiscoveredHosts(flow.d_receivers)
    /\ flow.host # flow.d_receivers[1].host

\* C4 as claimed: construct_unique_id(model, serial) is the model without
\* its asterisks, a hyphen, the serial.
C4_ConstructStripsAsterisks ==
    id_ret # None =>
       id_ret = SelectSeq(id_args[1], LAMBDA ch : ch # "*")
                   \o <<"-">> \o id_args[2]

\* C4, amended: construct_unique_id(model, serial) is the model as passed
\* (asterisks included), a hyphen, the serial; it is the asterisk-free form
\* exactly when the model passed holds no asterisk.
C4_ConstructConcatenates ==
    id_ret # None =>
       LET m == id_args[1]
           sn == id_args[2]
       IN  /\ Len(id_ret) = Len(m) + 1 + Len(sn)
           /\ \A i \in 1..Len(m) : id_ret[i] = m[i]
           /\ id_ret[Len(m) + 1] = "-"
           /\ \A i \in 1..Len(sn) : id_ret[Len(m) + 1 + i] = sn[i]
           /\ (\A i \in 1..Len(m) : id_ret[i] # "*")
                 <=> "*" \notin SeqRange(m)

C4_Witness ==
    /\ id_args = << <<"X","1","*">>, <<"S">> >>
    /\ id_ret = <<"X","1","*","-","S">>

\* A value that is absent or empty.
Empty(x) == x = None \/ x = <<>>

\* The hardware-address resolution yields nothing: the IP lookup raised, or
\* it was empty and the hostname lookup raised or was empty too.
LookupsYieldNothing(env) ==
    \/ env.mac_ip = Raised
    \/ Empty(env.mac_ip) /\ (env.mac_hostname = Raised \/ Empty(env.mac_hostname))

\* C5: in the connect step, after a successful connection, when no serial
\* number is known (none announced, none reported by the receiver) and the
\* hardware-address resolution yields nothing, the flow aborts with "no_mac",
\* creates no entry and registers no unique id.
C5_NoMacAbort ==
    FormShown("settings") =>
       \A raw \in SettingsInputs, env \in ConnectEnvs :
          ( /\ env.connect.kind = "ok"
            /\ Empty(flow.serial_number)
            /\ Empty(env.connect.receiver.serial_number)
            /\ LookupsYieldNothing(env) ) =>
             LET c == async_step_settings(Here, SETTINGS_SCHEMA(raw), env)
             IN  /\ IsAbort(c.result, "no_mac")
                 /\ c.entries = entries
                 /\ c.unique_id = unique_id
                 /\ "set_unique_id" \notin SeqRange(c.io)
                 /\ "connect" \in SeqRange(c.io)

C5_Witness ==
    /\ IsAbort(result, "no_mac")
    /\ Empty(flow.serial_number)
    /\ io = <<"connect", "get_mac_ip", "get_mac_hostname">>

\* The three manufacturer strings the ssdp step accepts.
Denon == <<"D","e","n","o","n">>
DENON == <<"D","E","N","O","N">>
Marantz == <<"M","a","r","a","n","t","z">>

ManufacturerOf(info) ==
    IF "manufacturer" \in DOMAIN info THEN info["manufacturer"] ELSE None

\* C6: a passive-discovery payload whose manufacturer is none of "Denon",
\* "DENON", "Marantz" (missing, "Sony", "denon", ...) aborts the ssdp step
\* with "not_denonavr_manufacturer" whatever its other fields; no entry is
\* created or modified and host, model and serial stay unset.
C6_WrongManufacturerAborts ==
    CanStart =>
       \A info \in SsdpPayloads :
          ManufacturerOf(info) \notin {Denon, DENON, Marantz} =>
             LET c == async_step_ssdp(Fresh, info, NoEnv)
             IN  /\ IsAbort(c.result, "not_denonavr_manufacturer")
                 /\ c.entries = entries
                 /\ c.self.host = None
                 /\ c.self.model_name = None
                 /\ c.self.serial_number = None

C6_Witness ==
    /\ IsAbort(result, "not_denonavr_manufacturer")
    /\ source = "ssdp"
    /\ Len(entries) >= 1
    /\ flow.host = None /\ flow.model_name = None /\ flow.serial_number = None

\* C7: a payload with a supported manufacturer that lacks the model-name key
\* or the serial-number key aborts the ssdp step with "not_denonavr_missing",
\* creates no entry and registers no unique id; a payload failing both
\* filters aborts with "not_denonavr_manufacturer".
C7_MissingFieldsAbort ==
    CanStart =>
       \A info \in SsdpPayloads :
          ("modelName" \notin DOMAIN info \/ "serialNumber" \notin DOMAIN info)
          =>
             LET c == async_step_ssdp(Fresh, info, NoEnv)
             IN  /\ c.result.type = "abort"
                 /\ c.result.reason =
                       IF ManufacturerOf(info) \in {Denon, DENON, Marantz}
                       THEN "not_denonavr_missing"
                       ELSE "not_denonavr_manufacturer"
                 /\ c.entries = entries
                 /\ c.unique_id = None
                 /\ c.io = <<>>

C7_Witness ==
    /\ IsAbort(result, "not_denonavr_missing")
    /\ source = "ssdp"
    /\ unique_id = None
    /\ io = <<>>

\* The identifier a payload announces: the model without asterisks, a
\* hyphen, the serial.
AnnouncedId(info) ==
    SelectSeq(info["modelName"], LAMBDA ch : ch # "*")
       \o <<"-">> \o info["serialNumber"]

\* The hostnames of the location URLs of the payloads.
HostnameOf(url) ==
    CASE url = <<"h","t","t","p",":","/","/","h","1",":","8","0","/","d">>
            -> <<"h","1">>
      [] url = <<"h","t","t","p",":","/","/","H","2","/","d">> -> <<"h","2">>
      [] url = <<"d",".","x","m","l">> -> None

\* A payload that passes both filters and has a location.
Complete(info) ==
    /\ ManufacturerOf(info) \in {Denon, DENON, Marantz}
    /\ {"modelName", "serialNumber", "ssdp_location"} \subseteq DOMAIN info

Configured(uid) == \E i \in 1..Len(entries) : entries[i].unique_id = uid

\* C8: a complete payload of a supported manufacturer whose identifier
\* matches no entry makes the ssdp step set model, serial and host (the
\* hostname of the location URL), register the identifier as the flow's
\* unique id and show the settings form at once, without discovery.
C8_SsdpProceedsToSettings ==
    CanStart =>
       \A info \in SsdpPayloads :
          (Complete(info) /\ ~Configured(AnnouncedId(info))) =>
             LET c == async_step_ssdp(Fresh, info, NoEnv)
             IN  /\ IsForm(c.result, "settings", "")
                 /\ c.self.model_name =
                       SelectSeq(info["modelName"], LAMBDA ch : ch # "*")
                 /\ c.self.serial_number = info["serialNumber"]
                 /\ c.self.host = HostnameOf(info["ssdp_location"])
                 /\ c.unique_id = AnnouncedId(info)
                 /\ c.io = <<"set_unique_id">>
                 /\ c.entries = entries

C8_Witness ==
    /\ IsForm(result, "settings", "")
    /\ source = "ssdp"
    /\ flow.host = <<"h","2">>
    /\ flow.model_name = <<"X","1","0","0">>
    /\ flow.serial_number = <<"S","N","1">>
    /\ unique_id = <<"X","1","0","0","-","S","N","1">>
    /\ io = <<"set_unique_id">>

\* The normalized form of the hardware address the lookups report.
MacNormal ==
    <<"a","a",":","b","b",":","c","c",":","d","d",":","e","e",":","f","f">>

\* The lookups find the address.
LookupsFind(env) ==
    \/ env.mac_ip = Mac17
    \/ Empty(env.mac_ip) /\ env.mac_hostname = Mac12

\* The identifier a user-initiated flow derives in the connect step.
ConnectId(env) ==
    SelectSeq(env.connect.receiver.model_name, LAMBDA ch : ch # "*")
       \o <<"-">>
       \o (IF Empty(env.connect.receiver.serial_number) THEN MacNormal
           ELSE env.connect.receiver.serial_number)

\* C9: no two persisted entries have the same unique id; a user-initiated
\* flow whose connect step derives the identifier of a persisted entry
\* aborts as already configured, creates no entry and changes no entry.
C9_NoDuplicateIdentifiers ==
    /\ \A i, j \in 1..Len(entries) :
          i # j => entries[i].unique_id # entries[j].unique_id
    /\ (FormShown("settings") /\ source = "user") =>
          \A raw \in SettingsInputs, env \in ConnectEnvs :
             ( /\ env.connect.kind = "ok"
               /\ ~Empty(env.connect.receiver.serial_number)
                     \/ LookupsFind(env)
               /\ Configured(ConnectId(env)) ) =>
                LET c == async_step_settings(Here, SETTINGS_SCHEMA(raw), env)
                IN  /\ IsAbort(c.result, "already_configured")
                    /\ c.unique_id = ConnectId(env)
                    /\ c.entries = entries

C9_Witness ==
    /\ IsAbort(result, "already_configured")
    /\ source = "user"
    /\ "connect" \in SeqRange(io)
    /\ Configured(unique_id)

DataKeys ==
    {"host", "mac", "timeout", "show_all_sources", "zone2", "zone3", "type",
     "model", "manufacturer"}

\* C10: a passive-discovery flow that announces the identifier of a
\* persisted entry aborts in the ssdp step as already configured, before any
\* settings form or connection attempt, and creates no entry; of the
\* existing entry only the host may change (to the hostname of the location
\* URL): its other data, its title and its unique id stay, as do the other
\* entries.
C10_SsdpMatchUpdatesHostOnly ==
    CanStart =>
       \A info \in SsdpPayloads :
          (Complete(info) /\ Configured(AnnouncedId(info))) =>
             LET c == async_step_ssdp(Fresh, info, NoEnv)
             IN  /\ IsAbort(c.result, "already_configured")
                 /\ "connect" \notin SeqRange(c.io)
                 /\ Len(c.entries) = Len(entries)
                 /\ \A i \in 1..Len(entries) :
                       /\ c.entries[i].unique_id = entries[i].unique_id
                       /\ c.entries[i].title = entries[i].title
                       /\ DOMAIN c.entries[i].data = DataKeys
                       /\ \A k \in DataKeys \ {"host"} :
                             c.entries[i].data[k] = entries[i].data[k]
                       /\ c.entries[i].data["host"] =
                             IF entries[i].unique_id = AnnouncedId(info)
                             THEN HostnameOf(info["ssdp_location"])
                             ELSE entries[i].data["host"]

C10_Witness ==
    /\ IsAbort(result, "already_configured")
    /\ source = "ssdp"
    /\ io = <<"set_unique_id", "update_entry">>
    /\ \E i \in 1..Len(entries) :
          /\ entries[i].unique_id = unique_id
          /\ flow.host = <<"h","1">>
          /\ entries[i].data["host"] = flow.host
          /\ entries[i].data["timeout"] = 5
          /\ entries[i].data["mac"] = MacNormal

\* The four settings of r are the schema's defaults.
FourDefaults(r) ==
    /\ r.timeout = 2
    /\ r.show_all_sources = FALSE
    /\ r.zone2 = FALSE
    /\ r.zone3 = FALSE

LastEntry(c) == c.entries[Len(c.entries)]

\* C11: a flow that has not received a settings submission holds timeout 2
\* and the three flags False, and an empty settings submission is filled in
\* to the same four values: the connect step passes them (with the flow's
\* host) to its one trial connection, and an entry created by that step
\* stores them.
C11_EmptySettingsAreDefaults ==
    /\ result.type \in {"none", "form"} => FourDefaults(flow)
    /\ FormShown("settings") =>
          \A env \in ConnectEnvs :
             LET user_input == SETTINGS_SCHEMA(<<>>)
                 c == async_step_settings(Here, user_input, env)
             IN  /\ DOMAIN user_input = SettingsKeys
                 /\ FourDefaults(user_input)
                 /\ FourDefaults(c.self)
                 /\ Len(c.connects) = 1
                 /\ FourDefaults(c.connects[1])
                 /\ c.connects[1].host = flow.host
                 /\ c.result.type = "create_entry" =>
                       /\ Len(c.entries) = Len(entries) + 1
                       /\ FourDefaults(LastEntry(c).data)

C11_Witness ==
    /\ result.type = "create_entry"
    /\ Len(connects) = 1
    /\ FourDefaults(connects[1])
    /\ FourDefaults(entries[Len(entries)].data)
    /\ entries[Len(entries)].unique_id = unique_id

\* The serial number the connect step has at hand: the announced one if
\* non-empty, else the one the receiver reports.
SerialAtHand(env) ==
    IF Truthy(flow.serial_number) THEN flow.serial_number
    ELSE env.connect.receiver.serial_number

\* The address of Mac17 in two more notations format_mac knows.
MacDash ==
    <<"a","a","-","b","b","-","c","c","-","d","d","-","e","e","-","f","f">>
MacDot == <<"a","a","b","b",".","c","c","d","d",".","e","e","f","f">>

\* What a lookup may do: raise, find nothing, or find the address in some
\* notation.
LookupOutcomes == {Raised, None, <<>>, Mac17, Mac12, MacDash, MacDot}

Found(x) == x # Raised /\ ~Empty(x)

\* What async_get_mac does for every pair of lookup outcomes.
GetMacResults ==
    [by_ip \in LookupOutcomes, by_hostname \in LookupOutcomes |->
        async_get_mac(by_ip, by_hostname)]

\* The hardware address the lookups of env resolve to.
ResolvedMac(env) == GetMacResults[env.mac_ip, env.mac_hostname].mac

\* C12: every entry the flow creates, however the flow was entered, has a
\* non-empty host and a non-empty unique id whose id part is the serial
\* number if one is at hand and otherwise the resolved hardware address;
\* with neither, the run aborts and creates no entry.
\* Violated: a passive-discovery flow takes its host from the hostname of
\* the announced location, which is None for a location without a network
\* location; the connect step stores that host unchecked, and the ssdp
\* step writes it into the entry that has the announced identifier.
C12_EntriesHaveHostAndIdentity ==
    /\ \A i \in 1..Len(entries) :
          ~Empty(entries[i].data["host"]) /\ ~Empty(entries[i].unique_id)
    /\ FormShown("settings") =>
          \A raw \in SettingsInputs, env \in ConnectEnvs :
             env.connect.kind = "ok" =>
                LET c == async_step_settings(Here, SETTINGS_SCHEMA(raw), env)
                    id == IF ~Empty(SerialAtHand(env)) THEN SerialAtHand(env)
                          ELSE ResolvedMac(env)
                IN  IF Empty(id)
                    THEN c.result.type = "abort" /\ c.entries = entries
                    ELSE c.result.type = "create_entry" =>
                            /\ ~Empty(LastEntry(c).data["host"])
                            /\ ~Empty(LastEntry(c).unique_id)
                            /\ LastEntry(c).unique_id =
                                  c.self.model_name \o <<"-">> \o id

AbortReasons ==
    {"connection_error", "no_mac", "not_denonavr_manufacturer",
     "not_denonavr_missing", "already_configured"}

\* The outcomes of every step execution that can happen in this state.
StepsFromHere ==
    (IF CanStart
     THEN {async_step_user(Fresh, NoInput, NoEnv)}
          \cup {async_step_ssdp(Fresh, info, NoEnv) : info \in SsdpPayloads}
     ELSE {})
    \cup
    (IF FormShown("user")
     THEN {async_step_user(Here, u, DiscoverEnv(d)) :
              u \in UserInputs, d \in Discoveries}
     ELSE {})
    \cup
    (IF FormShown("select")
     THEN {async_step_select(Here, [select_host |-> result.choices[i]], NoEnv) :
              i \in 1..Len(result.choices)}
     ELSE {})
    \cup
    (IF FormShown("settings")
     THEN {async_step_settings(Here, SETTINGS_SCHEMA(raw), env) :
              raw \in SettingsInputs, env \in ConnectEnvs}
     ELSE {})

\* The result r is one of the three regular ends of a step.
RegularEnd(r) ==
    \/ r.type = "create_entry"
    \/ r.type = "abort" /\ r.reason \in AbortReasons
    \/ /\ r.type = "form"
       /\ r.step_id \in {"user", "select", "settings"}
       /\ r.errors # "" => r.step_id = "user" /\ r.errors = "discovery_error"

\* C14: every step execution ends in an entry created, an abort with one of
\* the five reason codes, or a form shown; the only form shown with an error
\* is the user form with "discovery_error", which can be submitted again;
\* after an entry is created or the flow is aborted no step of the flow can
\* run, and a step adds an entry only when it ends in "create_entry", which
\* ends the run, so a run creates at most one entry.
\* Violated: a payload of a supported manufacturer with model and serial but
\* without a location makes the ssdp step raise KeyError, which is none of
\* the three ends.
C14_StepOutcomes ==
    /\ \A c \in StepsFromHere :
          /\ RegularEnd(c.result)
          /\ Len(c.entries) =
                Len(entries) + (IF c.result.type = "create_entry" THEN 1 ELSE 0)
    /\ IsForm(result, "user", "discovery_error") => ENABLED SubmitUser
    /\ result.type \in {"abort", "create_entry"} =>
          ~ENABLED (SubmitUser \/ SubmitSelect \/ SubmitSettings)

\* C15: a user-form submission with a non-empty host makes the user step
\* skip discovery, set the flow's host to exactly that host and show the
\* settings form; the select form is not shown by that step nor by any later
\* step of the flow.
C15_ManualHostSkipsDiscovery ==
    FormShown("user") =>
       \A u \in UserInputs :
          ~HostAbsentOrEmpty(u) =>
             /\ \A d \in Discoveries :
                   LET c == async_step_user(Here, u, DiscoverEnv(d))
                   IN  /\ "discover" \notin SeqRange(c.io)
                       /\ c.self.d_receivers = flow.d_receivers
                       /\ c.self.host = u["host"]
                       /\ IsForm(c.result, "settings", "")
                       /\ c.entries = entries
             /\ \A raw \in SettingsInputs, env \in ConnectEnvs :
                   LET c == async_step_user(Here, u, NoEnv)
                       c2 == async_step_settings(c, SETTINGS_SCHEMA(raw), env)
                   IN  /\ c2.result.type # "form"
                       /\ c2.self.host = u["host"]
                       /\ "discover" \notin SeqRange(c2.io)

C15_Witness ==
    /\ FormShown("settings")
    /\ source = "user"
    /\ flow.host = <<"h","2">>
    /\ flow.d_receivers = <<>>
    /\ io = <<>>

\* C16: an entry the connect step creates has the receiver's name as title
\* and exactly the nine data fields: host is the flow's host, timeout and
\* the three flags are those of the settings submission, mac is the resolved
\* hardware address, model is the asterisk-free model name that is the model
\* part of the entry's unique id, type and manufacturer are the receiver's.
C16_EntryTitleAndData ==
    FormShown("settings") =>
       \A raw \in SettingsInputs, env \in ConnectEnvs :
          LET user_input == SETTINGS_SCHEMA(raw)
              c == async_step_settings(Here, user_input, env)
              receiver == env.connect.receiver
              e == LastEntry(c)
              model == IF Truthy(flow.model_name) THEN flow.model_name
                       ELSE SelectSeq(receiver.model_name, LAMBDA ch : ch # "*")
          IN  c.result.type = "create_entry" =>
                 /\ e.title = receiver.name
                 /\ DOMAIN e.data = DataKeys
                 /\ e.data["host"] = flow.host
                 /\ e.data["timeout"] = user_input["timeout"]
                 /\ e.data["show_all_sources"] = user_input["show_all_sources"]
                 /\ e.data["zone2"] = user_input["zone2"]
                 /\ e.data["zone3"] = user_input["zone3"]
                 /\ e.data["mac"] = ResolvedMac(env)
                 /\ e.data["model"] = model
                 /\ "*" \notin SeqRange(e.data["model"])
                 /\ SubSeq(e.unique_id, 1, Len(model) + 1) = model \o <<"-">>
                 /\ e.data["type"] = receiver.receiver_type
                 /\ e.data["manufacturer"] = receiver.manufacturer

C16_Witness ==
    /\ result.type = "create_entry"
    /\ source = "user"
    /\ LET e == entries[Len(entries)]
       IN  /\ e.title = <<"A","V","R">>
           /\ DOMAIN e.data = DataKeys
           /\ e.data["host"] = <<"h","1">>
           /\ e.data["timeout"] = 5
           /\ e.data["show_all_sources"] = TRUE
           /\ e.data["zone2"] = FALSE
           /\ e.data["zone3"] = TRUE
           /\ e.data["mac"] = MacNormal
           /\ e.data["model"] = <<"X","1","0","0">>
           /\ e.unique_id = <<"X","1","0","0","-","S","N","1">>
           /\ e.data["type"] = <<"a","v","r","-","x">>
           /\ e.data["manufacturer"] = <<"D","e","n","o","n">>

\* A serial number that no announcement of the model carries.
S2 == <<"S","N","2">>

\* The successful connections, also to receivers that report the serial S2
\* (the receivers of the flows report the announced serial or none).
OkEnvsAnySerial ==
    LET ok == {env \in ConnectEnvs : env.connect.kind = "ok"}
    IN  ok \cup {[env EXCEPT !.connect.receiver.serial_number = S2] : env \in ok}

\* C17: the id part of the unique id the connect step registers is the
\* serial the flow already holds if non-empty (whatever serial the receiver
\* reports), else the receiver's serial if non-empty, else the hardware
\* address; so a passive-discovery flow that announced a non-empty model
\* and serial registers in the connect step the identifier its ssdp step
\* registered.
C17_IdPartPrecedence ==
    FormShown("settings") =>
       \A raw \in SettingsInputs, env \in OkEnvsAnySerial :
          LET c == async_step_settings(Here, SETTINGS_SCHEMA(raw), env)
              announced == flow.serial_number
              reported == env.connect.receiver.serial_number
              id == IF ~Empty(announced) THEN announced
                    ELSE IF ~Empty(reported) THEN reported
                    ELSE ResolvedMac(env)
          IN  /\ ~Empty(id) =>
                    /\ "set_unique_id" \in SeqRange(c.io)
                    /\ c.unique_id = c.self.model_name \o <<"-">> \o id
                    /\ c.self.serial_number = id
              /\ (source = "ssdp" /\ ~Empty(flow.model_name) /\ ~Empty(announced)) =>
                    /\ c.unique_id = unique_id
                    /\ c.unique_id = flow.model_name \o <<"-">> \o announced

C17_Witness ==
    /\ source = "ssdp"
    /\ result.type = "create_entry"
    /\ io = <<"connect", "get_mac_ip", "set_unique_id">>
    /\ flow.serial_number = S1
    /\ unique_id = <<"X","1","0","0","-","S","N","1">>
    /\ entries[Len(entries)].unique_id = unique_id

\* The lookups async_get_mac makes and the value it returns, for every pair
\* of lookup outcomes.
GetMacContract ==
    \A by_ip \in LookupOutcomes, by_hostname \in LookupOutcomes :
       LET m == GetMacResults[by_ip, by_hostname]
           second == Len(m.calls) = 2
       IN  /\ m.calls \in {<<"get_mac_ip">>,
                           <<"get_mac_ip", "get_mac_hostname">>}
           /\ second <=> Empty(by_ip)
           /\ m.mac # Raised
           /\ (by_ip = Raised \/ (second /\ by_hostname = Raised)) =>
                 m.mac = None
           /\ IF Found(by_ip) \/ (second /\ Found(by_hostname))
              THEN m.mac = MacNormal
              ELSE Empty(m.mac)

\* C18: async_get_mac looks up by IP first and by hostname only if the IP
\* lookup returned nothing (not if it raised); it makes one or two lookups
\* and returns a value whatever the lookups do: None if a lookup it made
\* raised, the colon-separated lower-case form of the first non-empty
\* result if there is one, and nothing (None, or the empty string a lookup
\* returned) otherwise.  The connect step makes exactly these lookups and
\* stores exactly this result.
C18_GetMacLookups ==
    /\ GetMacContract
    /\ FormShown("settings") =>
          \A raw \in SettingsInputs, env \in ConnectEnvs :
             env.connect.kind = "ok" =>
                LET c == async_step_settings(Here, SETTINGS_SCHEMA(raw), env)
                    m == GetMacResults[env.mac_ip, env.mac_hostname]
                IN  /\ SelectSeq(c.io, LAMBDA x :
                                 x \in {"get_mac_ip", "get_mac_hostname"})
                          = m.calls
                    /\ c.result.type = "create_entry" =>
                          LastEntry(c).data["mac"] = m.mac

\* The hostname lookup found the address after the IP lookup found nothing.
C18_Witness ==
    /\ result.type = "create_entry"
    /\ io = <<"connect", "get_mac_ip", "get_mac_hostname", "set_unique_id">>
    /\ entries[Len(entries)].data["mac"] = MacNormal
    /\ flow.serial_number = MacNormal

\* C19: after a successful connection the connect step aborts with
\* "no_mac" only if no serial number is at hand and the hardware-address
\* lookups yield nothing; with a serial number at hand and lookups that
\* fail or find nothing, the step registers the identifier and runs the
\* duplicate check: a duplicate aborts as already configured, anything else
\* creates the entry, whose mac field holds no address (None after a raise).
C19_LookupFailureNotFatal ==
    FormShown("settings") =>
       \A raw \in SettingsInputs, env \in ConnectEnvs :
          env.connect.kind = "ok" =>
             LET c == async_step_settings(Here, SETTINGS_SCHEMA(raw), env)
                 serial == SerialAtHand(env)
             IN  /\ IsAbort(c.result, "no_mac") =>
                       Empty(serial) /\ LookupsYieldNothing(env)
                 /\ (~Empty(serial) /\ LookupsYieldNothing(env)) =>
                       /\ "set_unique_id" \in SeqRange(c.io)
                       /\ c.unique_id = c.self.model_name \o <<"-">> \o serial
                       /\ IF Configured(c.unique_id)
                          THEN /\ IsAbort(c.result, "already_configured")
                               /\ c.entries = entries
                          ELSE /\ c.result.type = "create_entry"
                               /\ LastEntry(c).unique_id = c.unique_id
                               /\ Empty(LastEntry(c).data["mac"])
                               /\ (env.mac_ip = Raised \/ env.mac_hostname = Raised)
                                     => LastEntry(c).data["mac"] = None

C19_Witness ==
    /\ result.type = "create_entry"
    /\ io = <<"connect", "get_mac_ip", "get_mac_hostname", "set_unique_id">>
    /\ entries[Len(entries)].data["mac"] = None
    /\ entries[Len(entries)].unique_id = <<"X","1","0","0","-","S","N","1">>

=============================================================================
